---- MODULE Spec2Model ----
(***************************************************************************)
(* A model of tools/infer_tools.py (class DiffusionSVC): the model/context *)
(* loader (load_model, flush, set_spk_emb_dict), the conditioning resolver *)
(* (__call__), the single-segment core (infer), the realtime variants, and *)
(* the stitching loop of infer_from_long_audio.                            *)
(*                                                                         *)
(* Python values are represented as follows.                               *)
(*   None / a value v      : the sequences << >> and << v >>               *)
(*   a number (int, float)  : an integer counting halves (3 stands for 1.5)*)
(*                            wherever int() is applied to it              *)
(*   a tensor [B, T, C]     : a sequence of B rows, each a sequence of T   *)
(*                            frame values                                 *)
(*   a waveform [B, N]      : a sequence of B rows of N samples            *)
(*   an exception           : its class name in "raised" ("" = returned)   *)
(***************************************************************************)
EXTENDS Integers, Sequences, FiniteSets, TLC

VARIABLES svc, last, pc, flushed, loc, step

vars == <<svc, last, pc, flushed, loc, step>>

\* ------------------------------------------------------------------------
\* Python values
\* ------------------------------------------------------------------------
None == << >>

Some(x) == << x >>

\* int(x) of a number given in halves: truncation toward zero, in halves.
PyInt(h) == IF h >= 0 THEN (h \div 2) * 2 ELSE -(((-h) \div 2) * 2)

\* int(a / b) for b > 0: truncation toward zero.
PyTrunc(a, b) == IF a >= 0 THEN a \div b ELSE -((-a) \div b)

\* x[n:] on a sequence (a negative n counts from the end).
PySliceFrom(x, n) ==
  LET st == IF n >= 0 THEN (IF n > Len(x) THEN Len(x) ELSE n)
            ELSE (IF Len(x) + n < 0 THEN 0 ELSE Len(x) + n)
  IN  SubSeq(x, st + 1, Len(x))

\* x[a:b] on a sequence, 0 <= a.
PySlice(x, a, b) ==
  LET hi == IF b > Len(x) THEN Len(x) ELSE b
  IN  IF a >= hi THEN << >> ELSE SubSeq(x, a + 1, hi)

\* str(n) of a small non-negative integer.
Str(n) == << "0", "1", "2", "3", "4", "5", "6", "7", "8", "9" >>[n + 1]

Zeros(n) == [i \in 1..n |-> 0]

\* ------------------------------------------------------------------------
\* The files the loader reads (outside the class: the environment)
\* ------------------------------------------------------------------------
Paths == {"expA/model.pt", "expB/model.pt"}

\* os.path.split(model_path)[0]
DirOf(p) == IF p = "expB/model.pt" THEN "expB" ELSE "expA"

\* os.path.join(dir, 'spk_emb_dict.npy')
SpkEmbDictPath(p) == IF DirOf(p) = "expB" THEN "expB/spk_emb_dict.npy" ELSE "expA/spk_emb_dict.npy"

\* block_size of the configuration, samples per frame.
block_size == 3

\* The configuration stored with a checkpoint (args of load_model_vocoder).
ArgsOf(p) ==
  [ use_speaker_encoder |-> (DirOf(p) = "expA"),
    f0_extractor        |-> "crepe",
    f0_min              |-> 65,
    f0_max              |-> 800,
    encoder             |-> IF DirOf(p) = "expA" THEN "contentvec" ELSE "hubertsoft",
    block_size          |-> block_size ]

\* A speaker-embedding dictionary: str(speaker id) -> embedding (a number
\* stands for the vector).  kind "class" is the Python type object dict.
DictOf(path) ==
  [ kind |-> "dict",
    d    |-> IF path = "expA/spk_emb_dict.npy" THEN ("1" :> 11 @@ "2" :> 12) ELSE ("1" :> 21) ]

UserDict == [kind |-> "dict", d |-> ("1" :> 31 @@ "3" :> 33)]

DictClass == [kind |-> "class", d |-> ("0" :> 0)]

\* ------------------------------------------------------------------------
\* DiffusionSVC.__init__
\* ------------------------------------------------------------------------
Fresh ==
  [ model_path |-> None, model |-> None, vocoder |-> None, args |-> None,
    units_encoder |-> None, f0_extractor |-> None,
    f0_model |-> None, f0_min |-> None, f0_max |-> None,
    volume_extractor |-> None, speaker_encoder |-> None, spk_emb_dict |-> None,
    resample_dict_16000 |-> {}, units_indexer |-> None ]

Outcome(s, exc) == [svc |-> s, raised |-> exc]

\* ------------------------------------------------------------------------
\* DiffusionSVC.set_spk_emb_dict
\*   arg: [kind |-> "none"] | [kind |-> "class"] | [kind |-> "dict", v |-> d]
\*        | [kind |-> "path", v |-> file name];  ioFail: np.load raises.
\* ------------------------------------------------------------------------
IsDictClass(arg) == arg.kind = "class"

set_spk_emb_dict(s, arg, ioFail) ==
  IF arg.kind = "none" THEN Outcome(s, "")
  ELSE IF IsDictClass(arg)
       THEN Outcome([s EXCEPT !.spk_emb_dict = Some(DictClass)], "")
       ELSE IF arg.kind = "dict" THEN Outcome(s, "TypeError")
            ELSE IF ioFail THEN Outcome(s, "IOError")
                 ELSE Outcome([s EXCEPT !.spk_emb_dict = Some(DictOf(arg.v))], "")

\* ------------------------------------------------------------------------
\* DiffusionSVC.load_model
\*   fail: the step whose collaborator raises ("none": no collaborator raises)
\* ------------------------------------------------------------------------
FailPoints == {"none", "ckpt", "f0_extractor", "spk_emb_dict", "index"}

load_model(s, model_path, f0_model, f0_min, f0_max, fail) ==
  LET a  == ArgsOf(model_path)
      s1 == [s EXCEPT !.model_path = Some(model_path)]
      s2 == [s1 EXCEPT !.model = Some(model_path), !.vocoder = Some(model_path),
                       !.args = Some(a)]
      s3 == [s2 EXCEPT !.units_encoder = Some(a.encoder)]
      s4 == [s3 EXCEPT !.volume_extractor = Some(a.block_size)]
      s5 == [s4 EXCEPT !.f0_model = IF f0_model # None THEN f0_model ELSE Some(a.f0_extractor),
                       !.f0_min   = IF f0_min # None THEN f0_min ELSE Some(a.f0_min),
                       !.f0_max   = IF f0_max # None THEN f0_max ELSE Some(a.f0_max)]
      s6 == [s5 EXCEPT !.f0_extractor = Some(<<s5.f0_model[1], s5.f0_min[1], s5.f0_max[1]>>)]
      s7 == [s6 EXCEPT !.speaker_encoder = Some(model_path)]
      r8 == set_spk_emb_dict(s7, [kind |-> "path", v |-> SpkEmbDictPath(model_path)],
                             fail = "spk_emb_dict")
      s8 == IF a.use_speaker_encoder THEN r8.svc ELSE s6
      s9 == [s8 EXCEPT !.units_indexer = Some(DirOf(model_path))]
  IN  IF fail = "ckpt" THEN Outcome(s1, "IOError")
      ELSE IF fail = "f0_extractor" THEN Outcome(s5, "ValueError")
      ELSE IF a.use_speaker_encoder /\ r8.raised # "" THEN Outcome(s7, r8.raised)
      ELSE IF fail = "index" THEN Outcome(s8, "IOError")
      ELSE Outcome(s9, "")

\* ------------------------------------------------------------------------
\* DiffusionSVC.flush: the reload test, then load_model.
\* ------------------------------------------------------------------------
Changed(s, model_path, f0_model, f0_min, f0_max) ==
  \/ s.model_path # Some(model_path)
  \/ s.f0_model # f0_model
  \/ s.f0_min # f0_min
  \/ s.f0_max # f0_max

\* mp is the model_path argument, None or a path.  loads counts load_model calls.
flush(s, mp, f0_model, f0_min, f0_max, fail) ==
  IF mp = None THEN [svc |-> s, raised |-> "AssertionError", loads |-> 0]
  ELSE IF Changed(s, mp[1], f0_model, f0_min, f0_max)
       THEN LET r == load_model(s, mp[1], f0_model, f0_min, f0_max, fail)
            IN  [svc |-> r.svc, raised |-> r.raised, loads |-> 1]
       ELSE [svc |-> s, raised |-> "", loads |-> 0]

\* ------------------------------------------------------------------------
\* The collaborators of inference (outside the class).  Rates and hops are a
\* scale model: sampling_rate samples per second, block_size samples per
\* frame; encoder_rate stands for the 16000 Hz the unit encoder is fed in
\* the realtime path.
\* ------------------------------------------------------------------------
sampling_rate == 3

encoder_rate == 1

vocoder_hop_size == 3

vocoder_sample_rate == 3

\* hop_size = block_size * sr / sampling_rate  (samples of the input per frame)
HopAt(sr) == (block_size * sr) \div sampling_rate

\* Frame j of a 1-D audio at hop h: the content of its first sample; the
\* extractors return len // hop + 1 frames, the last one past the end.
FrameOf(audio, h, j) ==
  IF (j - 1) * h + 1 <= Len(audio) THEN audio[(j - 1) * h + 1]
  ELSE IF Len(audio) = 0 THEN 0 ELSE audio[Len(audio)]

NFrames(audio, h) == (Len(audio) \div h) + 1

\* Units_Encoder.encode(audio, sr, hop_size) -> [1, T, C]
UnitsEncode(audio, h) == << [j \in 1..NFrames(audio, h) |-> FrameOf(audio, h, j)] >>

\* UnitsIndexer.__call__(units_t, spk_id, ratio): retrieval blending.
UnitsIndex(units, spk_id, ratio) ==
  [b \in 1..Len(units) |-> [j \in 1..Len(units[b]) |-> (units[b][j] + ratio) % 2]]

\* F0_Extractor.extract -> [1, T, 1] (after unsqueeze), voiced frames at 2
F0Extract(audio, h) == << [j \in 1..NFrames(audio, h) |-> 2 * FrameOf(audio, h, j)] >>

\* Volume_Extractor.extract -> [1, T, 1]
VolumeExtract(audio, h) == << [j \in 1..NFrames(audio, h) |-> FrameOf(audio, h, j)] >>

\* Volume_Extractor.get_mask_from_volume -> [1, T * block_size]: 1 where the
\* frame is above the threshold.
MaskOf(volume) ==
  [b \in 1..Len(volume) |->
     [n \in 1..(Len(volume[b]) * block_size) |->
        IF volume[b][((n - 1) \div block_size) + 1] > 0 THEN 1 ELSE 0]]

\* Resample(sr, 16000): one sample out of every sr / encoder_rate.
Resample(audio_t, sr) ==
  [b \in 1..Len(audio_t) |->
     [n \in 1..((Len(audio_t[b]) * encoder_rate) \div sr) |->
        audio_t[b][((n - 1) * sr) \div encoder_rate + 1]]]

\* vocoder.extract(audio_t, sampling_rate) -> [B, N // hop, M]
VocoderExtract(audio_t) ==
  [b \in 1..Len(audio_t) |->
     [j \in 1..(Len(audio_t[b]) \div vocoder_hop_size) |->
        audio_t[b][(j - 1) * vocoder_hop_size + 1]]]

\* vocoder.infer(mel, f0) -> [B, T * hop]; amplitudes in halves.
VocoderInfer(mel, f0) ==
  [b \in 1..Len(mel) |->
     [n \in 1..(Len(mel[b]) * vocoder_hop_size) |->
        2 * mel[b][((n - 1) \div vocoder_hop_size) + 1]]]

\* self.model(units, f0, volume, ..., infer=True, ...): a spectrogram with the
\* frame count of units; it depends on the whole sequence and is never 0.
ModelForward(c) ==
  [b \in 1..Len(c.units) |->
     [j \in 1..Len(c.units[b]) |-> 1 + ((c.units[b][j] + Len(c.units[b])) % 2)]]

\* x[:, n:, :] and torch.cat((x, x[:, -1:, :]), 1)
Rows(x, n) == [b \in 1..Len(x) |-> PySliceFrom(x[b], n)]

CatLast(x) == [b \in 1..Len(x) |-> x[b] \o PySliceFrom(x[b], -1)]

\* ------------------------------------------------------------------------
\* How a call ends: the exception raised ("" = returned), the invocations
\* of the denoising model it made, and what it returned.
\* ------------------------------------------------------------------------
Res(exc, calls, out) == [raised |-> exc, calls |-> calls, out |-> out]

Raise(exc) == Res(exc, << >>, << >>)

\* ------------------------------------------------------------------------
\* DiffusionSVC.mel2wav
\* ------------------------------------------------------------------------
\* torch.nn.functional.pad(out_wav, (left, 0)); a negative left crops.
TorchPad(wav, left) ==
  IF left >= 0
  THEN Res("", << >>, [b \in 1..Len(wav) |-> Zeros(left) \o wav[b]])
  ELSE IF \E b \in 1..Len(wav) : Len(wav[b]) + left < 0
       THEN Raise("RuntimeError")
       ELSE Res("", << >>, [b \in 1..Len(wav) |-> SubSeq(wav[b], 1 - left, Len(wav[b]))])

mel2wav_NoPad(mel, f0, start_frame) == Res("", << >>, VocoderInfer(Rows(mel, start_frame), Rows(f0, start_frame)))

mel2wav(mel, f0, start_frame) ==
  IF start_frame = 0
  THEN Res("", << >>, VocoderInfer(mel, f0))
  ELSE TorchPad(VocoderInfer(Rows(mel, start_frame), Rows(f0, start_frame)),
                start_frame * vocoder_hop_size)

\* out *= mask on [1, N] tensors: the shapes must agree.
MulMask(wav, mask) ==
  IF Len(wav) # Len(mask) \/ \E b \in 1..Len(wav) : Len(wav[b]) # Len(mask[b])
  THEN Raise("RuntimeError")
  ELSE Res("", << >>, [b \in 1..Len(wav) |-> [n \in 1..Len(wav[b]) |-> wav[b][n] * mask[b][n]]])

\* x.squeeze().cpu().numpy() of a [1, N] tensor
Squeeze(x) == IF Len(x) = 1 THEN x[1] ELSE x

\* ------------------------------------------------------------------------
\* DiffusionSVC.__call__: the conditioning resolver, then the model.
\*   a: [units, f0, volume, spk_id, spk_mix_dict, gt_spec, k_step, spk_emb]
\*   (aug_shift, infer_speedup, method and use_tqdm are handed on as given)
\* ------------------------------------------------------------------------
\* np.tile(spk_emb, (n, 1))
Tile(emb, n) == [i \in 1..n |-> emb]

\* torch.LongTensor(np.array([[int(spk_id)]]))
LongTensor(spk_id) == << << spk_id >> >>

Invocation(a, spk_id, spk_emb, spk_emb_dict) ==
  [ units |-> a.units, f0 |-> a.f0, volume |-> a.volume, spk_id |-> spk_id,
    spk_mix_dict |-> a.spk_mix_dict, gt_spec |-> a.gt_spec, k_step |-> a.k_step,
    spk_emb |-> spk_emb, spk_emb_dict |-> spk_emb_dict ]

Invoke(c) == Res("", << c >>, ModelForward(c))

NeedsDict(a) == a.spk_mix_dict # None \/ a.spk_emb = None

\* An embedding of the speaker id is in the dictionary.
HasKey(dict, key) == dict # None /\ dict[1].kind = "dict" /\ key \in DOMAIN dict[1].d

SpkEmbOf_DictFirst(a, dict) ==
  IF HasKey(dict, Str(a.spk_id)) THEN dict[1].d[Str(a.spk_id)] ELSE a.spk_emb[1]

\* lines 172-173: the dictionary is consulted only without an explicit embedding
SpkEmbOf(a, dict) ==
  IF a.spk_emb = None THEN dict[1].d[Str(a.spk_id)] ELSE a.spk_emb[1]

call(s, a) ==
  IF s.args = None THEN Raise("AttributeError")
  ELSE IF s.args[1].use_speaker_encoder
  THEN LET dict == s.spk_emb_dict
           key  == Str(a.spk_id)
       IN  IF NeedsDict(a) /\ dict = None THEN Raise("AssertionError")
           ELSE IF a.spk_emb = None /\ dict[1].kind # "dict" THEN Raise("TypeError")
           ELSE IF a.spk_emb = None /\ ~HasKey(dict, key) THEN Raise("KeyError")
           ELSE LET emb == SpkEmbOf(a, dict)
                IN  Invoke(Invocation(a, a.spk_id, Some(Tile(emb, Len(a.units))), dict))
  ELSE Invoke(Invocation(a, LongTensor(a.spk_id), a.spk_emb, None))

\* ------------------------------------------------------------------------
\* DiffusionSVC.infer
\* ------------------------------------------------------------------------
infer(s, a) ==
  IF a.k_step # None /\ a.gt_spec = None THEN Raise("AssertionError")
  ELSE LET k == IF a.k_step # None THEN Some(PyInt(a.k_step[1])) ELSE None
           g == IF a.k_step # None THEN a.gt_spec ELSE None
           r == call(s, [a EXCEPT !.k_step = k, !.gt_spec = g])
       IN  IF r.raised # "" THEN r
           ELSE LET w == mel2wav(r.out, a.f0, 0) IN Res(w.raised, r.calls, w.out)

\* ------------------------------------------------------------------------
\* DiffusionSVC.infer_for_realtime
\*   a: the fields of __call__ but gt_spec, and audio_t, silence_front (in
\*      halves of a second), diff_jump_silence_front
\* ------------------------------------------------------------------------
\* int(silence_front * vocoder_sample_rate / vocoder_hop_size)
StartFrame(silence_front) == PyTrunc(silence_front * vocoder_sample_rate, 2 * vocoder_hop_size)

infer_for_realtime(s, a) ==
  IF s.vocoder = None THEN Raise("AttributeError")
  ELSE
  LET start_frame == StartFrame(a.silence_front)
      jump    == a.diff_jump_silence_front
      audio_t == IF jump /\ a.audio_t # None
                 THEN Some(Rows(a.audio_t[1], start_frame * vocoder_hop_size))
                 ELSE a.audio_t
      f0      == IF jump THEN Rows(a.f0, start_frame) ELSE a.f0
      units   == IF jump THEN Rows(a.units, start_frame) ELSE a.units
      volume  == IF jump THEN Rows(a.volume, start_frame) ELSE a.volume
  IN  IF a.k_step # None /\ audio_t = None THEN Raise("AssertionError")
      ELSE
      LET k == IF a.k_step # None THEN Some(PyInt(a.k_step[1])) ELSE None
          g == IF a.k_step # None THEN Some(VocoderExtract(audio_t[1])) ELSE None
          r == call(s, [units |-> units, f0 |-> f0, volume |-> volume, spk_id |-> a.spk_id,
                        spk_mix_dict |-> a.spk_mix_dict, gt_spec |-> g, k_step |-> k,
                        spk_emb |-> a.spk_emb])
      IN  IF r.raised # "" THEN r
          ELSE LET w == IF jump THEN mel2wav(r.out, f0, 0) ELSE mel2wav(r.out, f0, start_frame)
               IN  Res(w.raised, r.calls, w.out)

\* ------------------------------------------------------------------------
\* DiffusionSVC.infer_from_audio
\*   a: [audio, sr, k_step, spk_id, spk_mix_dict, spk_emb, index_ratio]
\* ------------------------------------------------------------------------
\* assert 0 < int(k_step) <= 1000
KStepInRange(k_step) == 0 < PyInt(k_step) /\ PyInt(k_step) <= 2000

infer_from_audio(s, a) ==
  IF s.units_encoder = None THEN Raise("AssertionError")
  ELSE IF a.index_ratio > 0 /\ s.units_indexer = None THEN Raise("TypeError")
  ELSE IF s.f0_extractor = None \/ s.volume_extractor = None THEN Raise("AssertionError")
  ELSE
  LET h      == HopAt(a.sr)
      units0 == UnitsEncode(a.audio, h)
      units  == IF a.index_ratio > 0 THEN UnitsIndex(units0, a.spk_id, a.index_ratio)
                ELSE units0
      f0     == F0Extract(a.audio, h)
      volume == VolumeExtract(a.audio, h)
      mask   == MaskOf(volume)
  IN  IF a.k_step # None /\ ~KStepInRange(a.k_step[1]) THEN Raise("AssertionError")
      ELSE
      LET k == IF a.k_step # None THEN Some(PyInt(a.k_step[1])) ELSE None
          g == IF a.k_step # None THEN Some(CatLast(VocoderExtract(<< a.audio >>))) ELSE None
          r == infer(s, [units |-> units, f0 |-> f0, volume |-> volume, gt_spec |-> g,
                         spk_id |-> a.spk_id, spk_mix_dict |-> a.spk_mix_dict,
                         k_step |-> k, spk_emb |-> a.spk_emb])
      IN  IF r.raised # "" THEN r
          ELSE LET m == MulMask(r.out, mask) IN Res(m.raised, r.calls, Squeeze(m.out))

\* ------------------------------------------------------------------------
\* DiffusionSVC.infer_from_audio_for_realtime
\*   a: [audio, sr, k_step, spk_id, spk_mix_dict, spk_emb, index_ratio,
\*       silence_front, diff_jump_silence_front]
\*   The result carries the instance too: the resampler cache is filled.
\* ------------------------------------------------------------------------
\* F0_Extractor.extract(..., silence_front): the frames before the front are 0.
F0ExtractFront(audio, h, sr, silence_front) ==
  LET front == PyTrunc(silence_front * sr, 2 * h)
      f0    == F0Extract(audio, h)
  IN  [b \in 1..Len(f0) |-> [j \in 1..Len(f0[b]) |-> IF j <= front THEN 0 ELSE f0[b][j]]]

\* lines 348-352: the mask is applied on the padded path only
Masked(jump) == ~jump

infer_from_audio_for_realtime(s, a) ==
  IF s.vocoder = None THEN [svc |-> s, res |-> Raise("AttributeError")]
  ELSE
  LET start_frame == StartFrame(a.silence_front)
      jump     == a.diff_jump_silence_front
      audio_t0 == << a.audio >>
      s1       == [s EXCEPT !.resample_dict_16000 = @ \cup {Str(a.sr)}]
      audio16  == IF a.sr # encoder_rate THEN Resample(audio_t0, a.sr) ELSE audio_t0
      units0   == UnitsEncode(audio16[1], HopAt(encoder_rate))
      units1   == IF a.index_ratio > 0 THEN UnitsIndex(units0, a.spk_id, a.index_ratio)
                  ELSE units0
      f00      == F0ExtractFront(a.audio, HopAt(a.sr), a.sr, a.silence_front)
      volume0  == VolumeExtract(a.audio, HopAt(a.sr))
      mask     == MaskOf(volume0)
      audio_t  == IF jump THEN Rows(audio_t0, start_frame * vocoder_hop_size) ELSE audio_t0
      f0       == IF jump THEN Rows(f00, start_frame) ELSE f00
      units    == IF jump THEN Rows(units1, start_frame) ELSE units1
      volume   == IF jump THEN Rows(volume0, start_frame) ELSE volume0
      k        == IF a.k_step # None THEN Some(PyInt(a.k_step[1])) ELSE None
      g        == IF a.k_step # None THEN Some(VocoderExtract(audio_t)) ELSE None
      r        == call(s1, [units |-> units, f0 |-> f0, volume |-> volume,
                            spk_id |-> a.spk_id, spk_mix_dict |-> a.spk_mix_dict,
                            gt_spec |-> g, k_step |-> k, spk_emb |-> a.spk_emb])
      w        == IF jump THEN mel2wav(r.out, f0, 0) ELSE mel2wav(r.out, f0, start_frame)
      m        == IF Masked(jump) THEN MulMask(w.out, mask) ELSE w
  IN  IF s.units_encoder = None THEN [svc |-> s1, res |-> Raise("AssertionError")]
      ELSE IF a.index_ratio > 0 /\ s.units_indexer = None
      THEN [svc |-> s1, res |-> Raise("TypeError")]
      ELSE IF s.f0_extractor = None \/ s.volume_extractor = None
      THEN [svc |-> s1, res |-> Raise("AssertionError")]
      ELSE IF r.raised # "" THEN [svc |-> s1, res |-> r]
      ELSE IF w.raised # "" THEN [svc |-> s1, res |-> Res(w.raised, r.calls, << >>)]
      ELSE [svc |-> s1, res |-> Res(m.raised, r.calls, Squeeze(m.out))]

\* ------------------------------------------------------------------------
\* DiffusionSVC.extract_mel
\* ------------------------------------------------------------------------
\* the rate the assertion of extract_mel compares with
extract_mel_sr == 441000

\* the default of the sr parameter
default_sr == 44100

extract_mel(s, audio_t, sr) ==
  IF sr # extract_mel_sr THEN Raise("AssertionError")
  ELSE IF s.vocoder = None THEN Raise("AttributeError")
  ELSE Res("", << >>, VocoderExtract(audio_t))

\* ------------------------------------------------------------------------
\* The caller: it makes one call at a time (pc "idle" -> "done"), reads how
\* the call ended in last, and goes on (Return).
\*   last    : the call that ended last: its arguments, and
\*             raised : the exception it raised, "" when it returned
\*   flushed : the arguments of the latest loader call when that call was a
\*             flush that returned; None otherwise
\* ------------------------------------------------------------------------
NoCall == [op |-> "none"]

NoLoop == [op |-> "none"]

Idle == pc = "idle"

Return ==
  /\ pc = "done"
  /\ pc' = "idle"
  /\ last' = NoCall
  /\ UNCHANGED <<svc, flushed, loc, step>>

\* ------------------------------------------------------------------------
\* The loader's operations.  In last:
\*   loads : the number of load_model calls the operation made
\*   kept  : the instance is as it was when the operation began
\*   full  : the instance was fully loaded when the operation began
\*   rel   : for a flush, how its arguments relate to flushed
\* ------------------------------------------------------------------------
F0ModelArgs == {None, Some("crepe"), Some("harvest")}

F0MinArgs == {None, Some(50)}

F0MaxArgs == {None, Some(1100)}

ModelPathArgs == {None} \cup {Some(p) : p \in Paths}

SpkEmbDictArgs ==
  { [kind |-> "none", v |-> ""], [kind |-> "class", v |-> ""],
    [kind |-> "dict", v |-> "user"],
    [kind |-> "path", v |-> "expB/spk_emb_dict.npy"] }

\* A state a load_model call that returned leaves: loading it again changes
\* nothing.
FullyLoaded(s) ==
  /\ s.model_path # None
  /\ load_model(s, s.model_path[1], s.f0_model, s.f0_min, s.f0_max, "none").svc = s

Rel(args) == IF flushed = None THEN "first"
             ELSE IF flushed[1] = args THEN "same" ELSE "differs"

Flush ==
  /\ Idle
  /\ \E mp \in ModelPathArgs, fm \in F0ModelArgs, lo \in F0MinArgs, hi \in F0MaxArgs,
        fail \in FailPoints :
       LET r == flush(svc, mp, fm, lo, hi, fail)
       IN  /\ svc' = r.svc
           /\ last' = [op |-> "flush", args |-> <<mp, fm, lo, hi>>, raised |-> r.raised,
                       loads |-> r.loads, kept |-> (r.svc = svc),
                       full |-> FullyLoaded(svc), rel |-> Rel(<<mp, fm, lo, hi>>)]
           /\ flushed' = IF r.raised = "" THEN Some(<<mp, fm, lo, hi>>) ELSE None
  /\ pc' = "done"
  /\ UNCHANGED <<loc, step>>

LoadModel ==
  /\ Idle
  /\ \E p \in Paths, fm \in F0ModelArgs, lo \in F0MinArgs, hi \in F0MaxArgs,
        fail \in FailPoints :
       LET r == load_model(svc, p, fm, lo, hi, fail)
       IN  /\ svc' = r.svc
           /\ last' = [op |-> "load_model", args |-> <<Some(p), fm, lo, hi>>,
                       raised |-> r.raised, loads |-> 1, kept |-> (r.svc = svc),
                       full |-> FullyLoaded(svc), rel |-> "first"]
  /\ flushed' = None
  /\ pc' = "done"
  /\ UNCHANGED <<loc, step>>

SetSpkEmbDict ==
  /\ Idle
  /\ \E arg \in SpkEmbDictArgs, ioFail \in BOOLEAN :
       LET r == set_spk_emb_dict(svc, arg, ioFail)
       IN  /\ svc' = r.svc
           /\ last' = [op |-> "set_spk_emb_dict", args |-> arg, raised |-> r.raised,
                       kept |-> (r.svc = svc)]
  /\ pc' = "done"
  /\ UNCHANGED <<flushed, loc, step>>

InitLoad ==
  /\ svc = Fresh
  /\ last = NoCall
  /\ pc = "idle"
  /\ flushed = None
  /\ loc = NoLoop
  /\ step = NoLoop

NextLoad == Flush \/ LoadModel \/ Return

SpecLoad == InitLoad /\ [][NextLoad]_vars

\* ------------------------------------------------------------------------
\* Inference calls.  The inputs: an audio is given by the content of its
\* frames (0 silent, 1 voiced); numbers that go through int() are in halves.
\* ------------------------------------------------------------------------
MaxFrames == 2

MaxSilence == 4

BatchSizes == {1, 2}

Contents == UNION { [1..n -> {0, 1}] : n \in 0..MaxFrames }

\* The samples of an audio at rate sr.
AudioOf(content, sr) ==
  [n \in 1..(Len(content) * HopAt(sr)) |-> content[((n - 1) \div HopAt(sr)) + 1]]

\* None, 0, 0.5, 1, 1000, 1001
KSteps == {None, Some(0), Some(1), Some(2), Some(2000), Some(2002)}

SilenceFronts == (0..MaxSilence) \cup {-2}

SpkIds == {1, 3}

SpkEmbs == {None, Some(77)}

SpkMixDicts == {None, Some("mix")}

\* The features of an audio, as a caller of __call__ or infer prepares them.
Features(content, nbatch) ==
  LET audio == AudioOf(content, sampling_rate)
      h     == HopAt(sampling_rate)
  IN  [ units   |-> [b \in 1..nbatch |-> UnitsEncode(audio, h)[1]],
        f0      |-> [b \in 1..nbatch |-> F0Extract(audio, h)[1]],
        volume  |-> [b \in 1..nbatch |-> VolumeExtract(audio, h)[1]],
        gt_spec |-> [b \in 1..nbatch |-> CatLast(VocoderExtract(<< audio >>))[1]],
        audio_t |-> [b \in 1..nbatch |-> audio] ]

Ended(op, a, r) ==
  [op |-> op, args |-> a, raised |-> r.raised, calls |-> r.calls, out |-> r.out]

Call ==
  /\ Idle
  /\ \E content \in Contents, nb \in BatchSizes, k \in {None, Some(0), Some(2)}, gt \in BOOLEAN,
        id \in SpkIds, emb \in SpkEmbs, mix \in SpkMixDicts :
       LET f == Features(content, nb)
           a == [units |-> f.units, f0 |-> f.f0, volume |-> f.volume, spk_id |-> id,
                 spk_mix_dict |-> mix, gt_spec |-> IF gt THEN Some(f.gt_spec) ELSE None,
                 k_step |-> k, spk_emb |-> emb]
       IN  last' = Ended("__call__", a, call(svc, a))
  /\ pc' = "done"
  /\ UNCHANGED <<svc, flushed, loc, step>>

Infer ==
  /\ Idle
  /\ \E content \in Contents, k \in KSteps, gt \in BOOLEAN, id \in SpkIds, emb \in SpkEmbs :
       LET f == Features(content, 1)
           a == [units |-> f.units, f0 |-> f.f0, volume |-> f.volume, spk_id |-> id,
                 spk_mix_dict |-> None, gt_spec |-> IF gt THEN Some(f.gt_spec) ELSE None,
                 k_step |-> k, spk_emb |-> emb]
       IN  last' = Ended("infer", a, infer(svc, a))
  /\ pc' = "done"
  /\ UNCHANGED <<svc, flushed, loc, step>>

InferForRealtime ==
  /\ Idle
  /\ \E content \in Contents, k \in {None, Some(0), Some(2)}, at \in BOOLEAN,
        sf \in SilenceFronts,
        jump \in BOOLEAN :
       LET f == Features(content, 1)
           a == [units |-> f.units, f0 |-> f.f0, volume |-> f.volume, spk_id |-> 1,
                 spk_mix_dict |-> None, audio_t |-> IF at THEN Some(f.audio_t) ELSE None,
                 k_step |-> k, spk_emb |-> None, silence_front |-> sf,
                 diff_jump_silence_front |-> jump]
       IN  last' = Ended("infer_for_realtime", a, infer_for_realtime(svc, a))
  /\ pc' = "done"
  /\ UNCHANGED <<svc, flushed, loc, step>>

InferFromAudio ==
  /\ Idle
  /\ \E content \in Contents, k \in KSteps, id \in SpkIds, emb \in SpkEmbs, ratio \in {0, 1} :
       LET a == [audio |-> AudioOf(content, sampling_rate), sr |-> sampling_rate,
                 k_step |-> k, spk_id |-> id, spk_mix_dict |-> None, spk_emb |-> emb,
                 index_ratio |-> ratio]
       IN  last' = Ended("infer_from_audio", a, infer_from_audio(svc, a))
  /\ pc' = "done"
  /\ UNCHANGED <<svc, flushed, loc, step>>

InferFromAudioForRealtime ==
  /\ Idle
  /\ \E content \in Contents, sr \in {encoder_rate, sampling_rate},
        k \in {None, Some(0), Some(2), Some(2002)}, sf \in SilenceFronts, jump \in BOOLEAN :
       LET a == [audio |-> AudioOf(content, sr), sr |-> sr, k_step |-> k, spk_id |-> 1,
                 spk_mix_dict |-> None, spk_emb |-> None, index_ratio |-> 0,
                 silence_front |-> sf, diff_jump_silence_front |-> jump]
           r == infer_from_audio_for_realtime(svc, a)
       IN  /\ last' = Ended("infer_from_audio_for_realtime", a, r.res)
           /\ svc' = r.svc
  /\ pc' = "done"
  /\ UNCHANGED <<flushed, loc, step>>

ExtractMel ==
  /\ Idle
  /\ \E content \in Contents, sr \in {default_sr, extract_mel_sr, 16000} :
       LET a == [audio |-> << AudioOf(content, sampling_rate) >>, sr |-> sr]
       IN  last' = Ended("extract_mel", a, extract_mel(svc, a.audio, a.sr))
  /\ pc' = "done"
  /\ UNCHANGED <<svc, flushed, loc, step>>

\* The instances inference is called on: a fresh one, and what a first
\* load_model leaves, returned or failed.
InferInstances ==
  { Fresh,
    load_model(Fresh, "expA/model.pt", None, None, None, "none").svc,
    load_model(Fresh, "expA/model.pt", None, None, None, "spk_emb_dict").svc,
    load_model(Fresh, "expB/model.pt", None, None, None, "none").svc }

InitInfer ==
  /\ svc \in InferInstances
  /\ last = NoCall
  /\ pc = "idle"
  /\ flushed = None
  /\ loc = NoLoop
  /\ step = NoLoop

NextInfer ==
  \/ Call \/ Infer \/ InferForRealtime \/ InferFromAudio \/ InferFromAudioForRealtime
  \/ ExtractMel \/ SetSpkEmbDict \/ Return

SpecInfer == InitInfer /\ [][NextInfer]_vars

\* ------------------------------------------------------------------------
\* Claims about the loader
\* ------------------------------------------------------------------------

\* C1: a flush whose {model path, f0_model, f0_min, f0_max} equal those of the
\* immediately preceding successful flush makes no load_model call, and a
\* flush that differs from it in any of the four makes exactly one.
C1_FlushIdempotent ==
  (last.op = "flush" /\ last.raised # "AssertionError")
    => /\ last.rel = "same" => last.loads = 0
       /\ last.rel = "differs" => last.loads = 1

\* C2: when load_model (directly or through flush) fails at any step of a
\* reload, every field describing the loaded state still holds its value of
\* the previous fully-loaded state.
C2_FailedLoadKeepsState ==
  (last.op \in {"flush", "load_model"} /\ last.loads = 1 /\ last.raised # "" /\ last.full)
    => last.kept

\* C10: set_spk_emb_dict(None) leaves spk_emb_dict unchanged; with a
\* dictionary object it binds spk_emb_dict to that object without a file
\* load; with a path it binds the dictionary loaded from that file.
C10_SetOrLoad ==
  last.op = "set_spk_emb_dict" =>
    CASE last.args.kind = "none" -> last.raised = "" /\ last.kept
      [] last.args.kind = "dict" -> last.raised = "" /\ svc.spk_emb_dict = Some(UserDict)
      [] last.args.kind = "path" ->
           last.raised = "" => svc.spk_emb_dict = Some(DictOf(last.args.v))
      [] OTHER -> TRUE

\* ------------------------------------------------------------------------
\* DiffusionSVC.infer_from_long_audio.  The call runs in steps: the prologue
\* (LongStart), one step per segment (LongSegment), the return (LongReturn).
\*   loc  : the locals of the running call
\*   step : what the last iteration of the loop did
\* ------------------------------------------------------------------------
\* tools.tools.cross_fade(a, b, idx): a up to idx, then the tail of a blended
\* into the head of b with complementary linear ramps, then the rest of b.
Blend(x, y, i, fade_len) ==
  IF fade_len <= 1 THEN x ELSE (((fade_len - 1 - i) * x) + (i * y)) \div (fade_len - 1)

cross_fade(a, b, idx) ==
  LET fade_len == Len(a) - idx
  IN  [n \in 1..(idx + Len(b)) |->
         IF n <= idx THEN a[n]
         ELSE IF n <= Len(a) THEN Blend(a[n], b[n - idx], n - idx - 1, fade_len)
         ELSE b[n - idx]]

\* tools.slicer.split: segments (start_frame, audio slice) in ascending order
\* that do not overlap and may leave gaps.  A labelling of the frames gives
\* one: 1 starts a segment, 2 continues it, 0 is outside every segment.
RECURSIVE RunLength(_, _)
RunLength(lab, j) == IF j <= Len(lab) /\ lab[j] = 2 THEN 1 + RunLength(lab, j + 1) ELSE 0

RECURSIVE SegmentsFrom(_, _, _, _)
SegmentsFrom(lab, audio, h, j) ==
  IF j > Len(lab) THEN << >>
  ELSE IF lab[j] = 1
       THEN LET n == 1 + RunLength(lab, j + 1)
            IN  << << j - 1, PySlice(audio, (j - 1) * h, (j - 1 + n) * h) >> >>
                  \o SegmentsFrom(lab, audio, h, j + n)
       ELSE SegmentsFrom(lab, audio, h, j + 1)

Labellings(total) ==
  { lab \in [1..total -> {0, 1, 2}] :
      \A j \in 1..total : lab[j] = 2 => (j > 1 /\ lab[j - 1] # 0) }

\* The prologue, lines 262-278.  a: [audio, sr, segments, k_step, spk_id,
\* spk_emb, index_ratio]; segments stands for what split returns.
long_prologue(s, a) ==
  IF s.args = None THEN [raised |-> "AttributeError"]
  ELSE IF s.f0_extractor = None \/ s.volume_extractor = None
  THEN [raised |-> "AssertionError"]
  ELSE IF a.k_step # None /\ ~KStepInRange(a.k_step[1]) THEN [raised |-> "AssertionError"]
  ELSE
  LET h      == HopAt(a.sr)
      volume == VolumeExtract(a.audio, h)
  IN  [ raised   |-> "",
        op       |-> "infer_from_long_audio",
        args     |-> a,
        hop_size |-> h,
        segments |-> a.segments,
        i        |-> 1,
        f0       |-> F0Extract(a.audio, h),
        volume   |-> volume,
        mask     |-> MaskOf(volume),
        k_step   |-> IF a.k_step # None THEN Some(PyInt(a.k_step[1])) ELSE None,
        gt_spec  |-> IF a.k_step # None THEN Some(CatLast(VocoderExtract(<< a.audio >>)))
                     ELSE None,
        result   |-> << >>,
        current_length |-> 0,
        calls    |-> << >> ]

\* lines 299-305: where the segment's output goes.
stitch_Truncate(result, seg_output, current_length, start_frame) ==
  LET silent_length == (start_frame * block_size) - current_length
  IN  [ silent_length  |-> silent_length,
        result         |-> IF silent_length >= 0
                           THEN result \o Zeros(silent_length) \o seg_output
                           ELSE SubSeq(result, 1, current_length + silent_length)
                                  \o seg_output,
        current_length |-> current_length + silent_length + Len(seg_output) ]

stitch_NoGap(result, seg_output, current_length, start_frame) ==
  LET silent_length == (start_frame * block_size) - current_length
  IN  [ silent_length  |-> silent_length,
        result         |-> IF silent_length >= 0
                           THEN result \o seg_output
                           ELSE cross_fade(result, seg_output, current_length + silent_length),
        current_length |-> current_length + silent_length + Len(seg_output) ]

stitch(result, seg_output, current_length, start_frame) ==
  LET silent_length == (start_frame * block_size) - current_length
  IN  [ silent_length  |-> silent_length,
        result         |-> IF silent_length >= 0
                           THEN result \o Zeros(silent_length) \o seg_output
                           ELSE cross_fade(result, seg_output, current_length + silent_length),
        current_length |-> current_length + silent_length + Len(seg_output) ]

\* One iteration, lines 280-305, on the locals l.
long_segment(s, l) ==
  IF s.units_encoder = None THEN [raised |-> "AttributeError", calls |-> << >>]
  ELSE IF l.args.index_ratio > 0 /\ s.units_indexer = None
  THEN [raised |-> "TypeError", calls |-> << >>]
  ELSE
  LET segment     == l.segments[l.i]
      start_frame == segment[1]
      units0      == UnitsEncode(segment[2], l.hop_size)
      seg_units   == IF l.args.index_ratio > 0
                     THEN UnitsIndex(units0, l.args.spk_id, l.args.index_ratio)
                     ELSE units0
      size1       == Len(seg_units[1])
      seg_f0      == [b \in 1..Len(l.f0) |-> PySlice(l.f0[b], start_frame, start_frame + size1)]
      seg_volume  == [b \in 1..Len(l.volume) |->
                        PySlice(l.volume[b], start_frame, start_frame + size1)]
      seg_gt_spec == IF l.gt_spec # None
                     THEN Some([b \in 1..Len(l.gt_spec[1]) |->
                                  PySlice(l.gt_spec[1][b], start_frame, start_frame + size1)])
                     ELSE None
      r           == infer(s, [units |-> seg_units, f0 |-> seg_f0, volume |-> seg_volume,
                               gt_spec |-> seg_gt_spec, spk_id |-> l.args.spk_id,
                               spk_mix_dict |-> None, k_step |-> l.k_step,
                               spk_emb |-> l.args.spk_emb])
      left        == start_frame * block_size
      right       == (start_frame + size1) * block_size
      m           == MulMask(r.out, [b \in 1..Len(l.mask) |-> PySlice(l.mask[b], left, right)])
      seg_output  == Squeeze(m.out)
      st          == stitch(l.result, seg_output, l.current_length, start_frame)
  IN  IF r.raised # "" THEN [raised |-> r.raised, calls |-> r.calls]
      ELSE IF m.raised # "" THEN [raised |-> m.raised, calls |-> r.calls]
      ELSE [ raised |-> "", calls |-> r.calls, start_frame |-> start_frame,
             seg_output |-> seg_output, silent_length |-> st.silent_length,
             result |-> st.result, current_length |-> st.current_length ]

\* The length of the audio of a long call, in frames.
MaxLongFrames == 4

LongStart ==
  /\ Idle
  /\ \E total \in 1..MaxLongFrames :
       \E content \in [1..total -> {0, 1}], lab \in Labellings(total),
          k \in {None, Some(0), Some(2)}, emb \in SpkEmbs :
         LET audio == AudioOf(content, sampling_rate)
             a == [audio |-> audio, sr |-> sampling_rate,
                   segments |-> SegmentsFrom(lab, audio, HopAt(sampling_rate), 1),
                   k_step |-> k, spk_id |-> 1, spk_emb |-> emb, index_ratio |-> 0]
             l == long_prologue(svc, a)
         IN  IF l.raised # ""
             THEN /\ pc' = "done"
                  /\ last' = Ended("infer_from_long_audio", a, Raise(l.raised))
                  /\ loc' = NoLoop
             ELSE /\ pc' = "loop"
                  /\ last' = NoCall
                  /\ loc' = l
  /\ step' = NoLoop
  /\ UNCHANGED <<svc, flushed>>

LongSegment ==
  /\ pc = "loop"
  /\ loc.i <= Len(loc.segments)
  /\ LET r == long_segment(svc, loc)
     IN  IF r.raised # ""
         THEN /\ pc' = "done"
              /\ last' = Ended("infer_from_long_audio", loc.args,
                               Res(r.raised, loc.calls \o r.calls, << >>))
              /\ loc' = NoLoop
              /\ step' = NoLoop
         ELSE /\ pc' = "loop"
              /\ last' = NoCall
              /\ loc' = [loc EXCEPT !.i = @ + 1, !.result = r.result,
                                    !.current_length = r.current_length,
                                    !.calls = @ \o r.calls]
              /\ step' = [ op |-> "segment", start_frame |-> r.start_frame,
                           silent_length |-> r.silent_length,
                           seg_output |-> r.seg_output,
                           before |-> loc.result, cursor |-> loc.current_length ]
  /\ UNCHANGED <<svc, flushed>>

LongReturn ==
  /\ pc = "loop"
  /\ loc.i > Len(loc.segments)
  /\ pc' = "done"
  /\ last' = Ended("infer_from_long_audio", loc.args, Res("", loc.calls, loc.result))
  /\ loc' = NoLoop
  /\ step' = NoLoop
  /\ UNCHANGED <<svc, flushed>>

InitLong ==
  /\ svc \in InferInstances
  /\ last = NoCall
  /\ pc = "idle"
  /\ flushed = None
  /\ loc = NoLoop
  /\ step = NoLoop

NextLong == LongStart \/ LongSegment \/ LongReturn \/ Return

SpecLong == InitLong /\ [][NextLong]_vars

\* ------------------------------------------------------------------------
\* Claims about inference
\* ------------------------------------------------------------------------
\* C3: in __call__, infer and infer_for_realtime, a k_step that is set with no
\* ground-truth spectrogram (for infer_for_realtime: no source audio) makes
\* the call fail before the model is invoked; the model is never invoked with
\* k_step set and gt_spec absent.
C3_KStepNeedsGtSpec ==
  /\ last.op \in {"__call__", "infer"} /\ last.args.k_step # None /\ last.args.gt_spec = None
       => last.raised # "" /\ last.calls = << >>
  /\ last.op = "infer_for_realtime" /\ last.args.k_step # None /\ last.args.audio_t = None
       => last.raised # "" /\ last.calls = << >>
  /\ last.op \in {"__call__", "infer", "infer_for_realtime"}
       => \A i \in 1..Len(last.calls) :
            last.calls[i].k_step # None => last.calls[i].gt_spec # None

\* C4: in infer, infer_for_realtime, infer_from_audio and
\* infer_from_audio_for_realtime the model is only ever invoked with k_step
\* unset or with 0 < k_step <= 1000.
C4_KStepRange ==
  last.op \in {"infer", "infer_for_realtime", "infer_from_audio",
               "infer_from_audio_for_realtime"}
    => \A i \in 1..Len(last.calls) :
         \/ last.calls[i].k_step = None
         \/ (0 < last.calls[i].k_step[1] /\ last.calls[i].k_step[1] <= 2000)

\* C9: extract_mel called with the expected rate (the default of its sr
\* parameter) passes the assertion and returns the vocoder's spectrogram;
\* called with any other rate it fails without invoking the vocoder.
C9_ExtractMelAssertion ==
  (last.op = "extract_mel" /\ svc.vocoder # None) =>
    IF last.args.sr = default_sr
    THEN last.raised = "" /\ last.out = VocoderExtract(last.args.audio)
    ELSE last.raised = "AssertionError"

\* C8: in __call__ on a model with a speaker encoder, an explicit spk_emb is
\* the embedding handed to the model (tiled) and the dictionary is not looked
\* up, so the call does not depend on the speaker id being in it; without an
\* explicit embedding the model gets the dictionary's entry for str(spk_id),
\* and when the dictionary or the key is absent and there is no mixing
\* dictionary the call fails before the model is invoked.  On a model without
\* a speaker encoder the speaker id is handed on as a categorical value and no
\* embedding is looked up.
C8_Conditioning ==
  (last.op = "__call__" /\ svc.args # None) =>
    LET a    == last.args
        dict == svc.spk_emb_dict
        key  == Str(a.spk_id)
    IN  IF svc.args[1].use_speaker_encoder
        THEN /\ (a.spk_emb # None /\ a.spk_mix_dict = None)
                  => /\ last.raised = ""
                     /\ Len(last.calls) = 1
                     /\ last.calls[1].spk_emb = Some(Tile(a.spk_emb[1], Len(a.units)))
             /\ (a.spk_emb = None /\ last.raised = "")
                  => /\ HasKey(dict, key)
                     /\ Len(last.calls) = 1
                     /\ last.calls[1].spk_emb = Some(Tile(dict[1].d[key], Len(a.units)))
             /\ (a.spk_emb = None /\ a.spk_mix_dict = None /\ ~HasKey(dict, key))
                  => last.raised # "" /\ last.calls = << >>
        ELSE /\ last.raised = ""
             /\ Len(last.calls) = 1
             /\ last.calls[1].spk_id = LongTensor(a.spk_id)
             /\ last.calls[1].spk_emb = a.spk_emb
             /\ last.calls[1].spk_emb_dict = None

\* An explicit embedding went to the model although the speaker id is not in
\* the dictionary.
C8_Witness ==
  /\ last.op = "__call__" /\ svc.args # None /\ svc.args[1].use_speaker_encoder
  /\ last.args.spk_emb # None /\ last.raised = ""
  /\ svc.spk_emb_dict # None /\ ~HasKey(svc.spk_emb_dict, Str(last.args.spk_id))
  /\ Len(last.args.units) = 2

\* The samples of what a realtime call returned: infer_for_realtime returns a
\* [1, N] tensor, infer_from_audio_for_realtime a 1-D array.
WaveOf(op, out) == IF op = "infer_for_realtime" THEN Squeeze(out) ELSE out

\* The same call under the other policy.
OtherPolicy ==
  LET a == [last.args EXCEPT !.diff_jump_silence_front = ~@]
  IN  IF last.op = "infer_for_realtime" THEN infer_for_realtime(svc, a)
      ELSE infer_from_audio_for_realtime(svc, a).res

\* C7: a realtime call with diff_jump_silence_front = true returns a waveform
\* shorter by exactly start_frame * vocoder_hop_size samples than the call
\* with the policy false on the same input; under the true policy the output
\* is the vocoder's waveform, not multiplied by the silence mask; under the
\* false policy infer_from_audio_for_realtime multiplies by the mask and the
\* first start_frame * vocoder_hop_size samples are zero.
C7_JumpSilenceFront ==
  (last.op \in {"infer_for_realtime", "infer_from_audio_for_realtime"} /\ last.raised = "") =>
    LET a    == last.args
        sf   == StartFrame(a.silence_front)
        out  == WaveOf(last.op, last.out)
        mask == MaskOf(VolumeExtract(a.audio, HopAt(a.sr)))[1]
    IN  IF a.diff_jump_silence_front
        THEN /\ OtherPolicy.raised = ""
                  => Len(out) = Len(WaveOf(last.op, OtherPolicy.out)) - sf * vocoder_hop_size
             /\ out = Squeeze(VocoderInfer(ModelForward(last.calls[1]), last.calls[1].f0))
        ELSE last.op = "infer_from_audio_for_realtime"
               => /\ Len(out) = Len(mask)
                  /\ \A n \in 1..Len(out) :
                       (n <= sf * vocoder_hop_size \/ mask[n] = 0) => out[n] = 0

\* A jump call that dropped a front and returned samples of a silent frame
\* unmasked, where the padded call on the same input returned too.
C7_Witness ==
  /\ last.op = "infer_from_audio_for_realtime" /\ last.raised = ""
  /\ last.args.diff_jump_silence_front
  /\ StartFrame(last.args.silence_front) > 0
  /\ OtherPolicy.raised = ""
  /\ Len(last.out) > 0
  /\ \E n \in 1..Len(last.out) :
       /\ last.out[n] # 0
       /\ MaskOf(VolumeExtract(last.args.audio, HopAt(last.args.sr)))[1]
            [n + StartFrame(last.args.silence_front) * vocoder_hop_size] = 0

\* ------------------------------------------------------------------------
\* Claims about the stitching loop
\* ------------------------------------------------------------------------

\* C5: after a segment with silent_length < 0 the buffer has length
\* current_length + silent_length + len(seg_output) and the cursor equals it
\* (len(result) = current_length after every segment); the samples before the
\* overlap are unchanged and the overlap is a blend of the old tail and the
\* new head, not one of the two.
C5_CrossFade ==
  /\ pc = "loop" => Len(loc.result) = loc.current_length
  /\ (pc = "loop" /\ step.op = "segment" /\ step.silent_length < 0) =>
       LET idx == step.cursor + step.silent_length
           n   == Len(step.before) - idx
       IN  /\ Len(loc.result) = step.cursor + step.silent_length + Len(step.seg_output)
           /\ loc.current_length = Len(loc.result)
           /\ \A j \in 1..idx : loc.result[j] = step.before[j]
           /\ \A j \in 1..n :
                loc.result[idx + j] = Blend(step.before[idx + j], step.seg_output[j], j - 1, n)
           /\ \A j \in (n + 1)..Len(step.seg_output) : loc.result[idx + j] = step.seg_output[j]

\* A segment was cross-faded over an overlap in which the old tail and the
\* new head differ, and a blended sample is neither of the two.
C5_Witness ==
  /\ pc = "loop" /\ step.op = "segment" /\ step.silent_length < 0
  /\ LET idx == step.cursor + step.silent_length
     IN  \E j \in 1..(Len(step.before) - idx) :
           /\ loc.result[idx + j] # step.before[idx + j]
           /\ loc.result[idx + j] # step.seg_output[j]

\* C6: after a segment with silent_length >= 0 the buffer is the old buffer,
\* then silent_length zeros, then the segment's output verbatim, so the
\* output starts at sample start_frame * block_size; with silent_length = 0 the
\* length is the sum of the two lengths.
C6_Append ==
  (pc = "loop" /\ step.op = "segment" /\ step.silent_length >= 0) =>
    /\ loc.result = step.before \o Zeros(step.silent_length) \o step.seg_output
    /\ Len(step.before) + step.silent_length = step.start_frame * block_size
    /\ SubSeq(loc.result, step.start_frame * block_size + 1, Len(loc.result)) = step.seg_output
    /\ step.silent_length = 0 => Len(loc.result) = Len(step.before) + Len(step.seg_output)

\* A second segment was appended after a gap of zeros, and another right
\* behind the buffer with no gap.
C6_Witness ==
  /\ pc = "loop" /\ step.op = "segment" /\ step.silent_length = 0
  /\ Len(step.before) > 0
  /\ \E n \in 1..Len(step.seg_output) : step.seg_output[n] # 0
  /\ \E n \in 1..Len(step.before) : step.before[n] # 0

====
